---- MODULE Spec2Model ----
(***************************************************************************)
(* Model of the findings-aggregation pipeline of multiagent_mcp_server:    *)
(*   - Orchestrator.run_plugins      (orchestrator.py, lines 21-54)        *)
(*   - Orchestrator.aggregate_results (orchestrator.py, lines 62-71)       *)
(*   - BaseAgent.run / detect_issues_in_file (base_agent.py)               *)
(* Three specifications share the variables: PluginSpec (one call of       *)
(* run_plugins), AggSpec (aggregate_results as a function of its input)    *)
(* and RunSpec (one call of BaseAgent.run).                                *)
(***************************************************************************)
EXTENDS Integers, Sequences, FiniteSets, TLC

\* ------------------------------------------------------------------ bounds
\* Largest number of registered plugins explored.
NPlugins == 2
\* Longest list handed to aggregate_results.
MaxLen == 3

\* ------------------------------------------------------------- run_plugins
VARIABLES
    plugins,            \* self.plugins, as the number of registered plugins
    outcome,            \* what each plugin's run does: return a list, raise, hang
    pc,                 \* position of the thread that called run_plugins
    future_state,       \* state of the future submitted for each plugin
    expired,            \* the clock has passed as_completed's end_time
    pending,            \* as_completed: futures not yet yielded
    finished_futures,   \* the waiter's finished_futures, in finishing order
    finished,           \* as_completed: the futures being yielded, in order
    handler_index,      \* position of the except-TimeoutError loop
    results_by_plugin,  \* the mapping run_plugins builds and returns
    in_time             \* history: plugins whose future finished before expiry

pluginVars == <<plugins, outcome, pc, future_state, expired, pending,
                finished_futures, finished, handler_index, results_by_plugin,
                in_time>>

\* name() of the four plugin classes of the repository.
PluginNames == <<"ruff", "bandit", "mypy", "semgrep">>

name(p) == PluginNames[p]

Registered == 1..plugins

\* The lists a plugin's run may return: nothing, or one finding.
Returns(p) ==
    { <<>>,
      <<[file |-> "a.py", line |-> 1, severity |-> "warning",
         message |-> "unused import", tool |-> name(p)]>> }

\* What plugin.run does.
Outcomes(p) ==
    {[kind |-> "hang"], [kind |-> "raise"]}
        \cup {[kind |-> "return", value |-> v] : v \in Returns(p)}

\* str(e) of the exception a failing plugin raises, as words.
ExceptionText(p) == <<"failed", name(p)>>

\* f"timeout after {timeout_sec}s", as words.
TimeoutText == <<"timeout", "after", "20.0s">>

\* Lines 41-44: the entry stored for a plugin whose future raised.
ErrorEntry(p) == <<[tool |-> name(p), error |-> ExceptionText(p)]>>

\* Lines 50-53: the entry stored for a plugin unfinished at the timeout.
TimeoutEntry(p) == <<[tool |-> name(p), error |-> TimeoutText]>>

\* Future.done(): CANCELLED, CANCELLED_AND_NOTIFIED or FINISHED.
Done(p) == future_state[p] \in {"returned", "raised", "cancelled"}

\* The elements of a list.
Range(s) == {s[i] : i \in DOMAIN s}

\* All orders in which the elements of a finite set can be listed.
Orders(S) ==
    {s \in [1..Cardinality(S) -> S] : \A i, j \in DOMAIN s : i # j => s[i] # s[j]}

\* The Python type of what run_plugins builds (line 26) and returns (line
\* 54): a dict keyed by plugin name.
results_type == "dict"

\* results_by_plugin[key] = value
Store(map, key, value) == (key :> value) @@ map

EmptyMap == [k \in {} |-> <<>>]

PluginInit ==
    /\ plugins \in 0..NPlugins
    /\ outcome \in {o \in [1..NPlugins -> UNION {Outcomes(p) : p \in 1..NPlugins}] :
                        \A p \in 1..NPlugins : o[p] \in Outcomes(p)}
    /\ pc = "call"
    /\ future_state = [p \in 1..NPlugins |-> "none"]
    /\ expired = FALSE
    /\ pending = {}
    /\ finished_futures = <<>>
    /\ finished = <<>>
    /\ handler_index = 0
    /\ results_by_plugin = EmptyMap
    /\ in_time = {}

\* Lines 26-28: no plugin registered, the empty mapping is returned.
ReturnEmpty ==
    /\ pc = "call"
    /\ plugins = 0
    /\ pc' = "returned"
    /\ UNCHANGED <<plugins, outcome, future_state, expired, pending,
                   finished_futures, finished, handler_index,
                   results_by_plugin, in_time>>

\* Lines 30-33: one future per plugin is submitted to a pool that has one
\* worker per plugin.
Submit ==
    /\ pc = "call"
    /\ plugins > 0
    /\ future_state' = [p \in 1..NPlugins |->
                            IF p \in Registered THEN "pending" ELSE "none"]
    /\ pc' = "as_completed"
    /\ UNCHANGED <<plugins, outcome, expired, pending, finished_futures,
                   finished, handler_index, results_by_plugin, in_time>>

\* A pool worker takes the work item and starts plugin.run.
Start(p) ==
    /\ p \in Registered
    /\ future_state[p] = "pending"
    /\ future_state' = [future_state EXCEPT ![p] = "running"]
    /\ UNCHANGED <<plugins, outcome, pc, expired, pending, finished_futures,
                   finished, handler_index, results_by_plugin, in_time>>

\* The waiter as_completed installs is in place from its first statement
\* until the generator is closed.
WaiterInstalled == pc \in {"yield", "top", "wait"}

\* plugin.run ends, had the worker itself stored what it produced.
FinishAndStore(p) ==
    /\ p \in Registered
    /\ future_state[p] = "running"
    /\ outcome[p].kind # "hang"
    /\ future_state' = [future_state EXCEPT
                            ![p] = IF outcome[p].kind = "return"
                                   THEN "returned" ELSE "raised"]
    /\ finished_futures' = IF WaiterInstalled
                           THEN Append(finished_futures, p)
                           ELSE finished_futures
    /\ in_time' = IF expired THEN in_time ELSE in_time \cup {p}
    /\ results_by_plugin' =
          Store(results_by_plugin, name(p),
                IF outcome[p].kind = "return" THEN outcome[p].value ELSE ErrorEntry(p))
    /\ UNCHANGED <<plugins, outcome, pc, expired, pending, finished,
                   handler_index>>

\* plugin.run returns or raises; a hanging run does neither. The future
\* notifies the waiter, if one is installed.
Finish(p) ==
    /\ p \in Registered
    /\ future_state[p] = "running"
    /\ outcome[p].kind # "hang"
    /\ future_state' = [future_state EXCEPT
                            ![p] = IF outcome[p].kind = "return"
                                   THEN "returned" ELSE "raised"]
    /\ finished_futures' = IF WaiterInstalled
                           THEN Append(finished_futures, p)
                           ELSE finished_futures
    /\ in_time' = IF expired THEN in_time ELSE in_time \cup {p}
    /\ UNCHANGED <<plugins, outcome, pc, expired, pending, finished,
                   handler_index, results_by_plugin>>

\* Line 35, as_completed's first statements: end_time is fixed, the futures
\* already finished are set aside to be yielded first, the rest is pending.
AsCompletedStart ==
    /\ pc = "as_completed"
    /\ LET fin == {p \in Registered : Done(p)} IN
        /\ finished' \in Orders(fin)
        /\ pending' = Registered \ fin
    /\ finished_futures' = <<>>
    /\ pc' = "yield"
    /\ UNCHANGED <<plugins, outcome, future_state, expired, handler_index,
                   results_by_plugin, in_time>>

\* The wall clock passes end_time.
Expire ==
    /\ pc \in {"yield", "top", "wait"}
    /\ ~expired
    /\ expired' = TRUE
    /\ UNCHANGED <<plugins, outcome, pc, future_state, pending,
                   finished_futures, finished, handler_index,
                   results_by_plugin, in_time>>

\* The loop body, had it stored the error entry for every future.
YieldErrorEntry ==
    /\ pc = "yield"
    /\ finished # <<>>
    /\ LET p == Head(finished) IN
        /\ results_by_plugin' = Store(results_by_plugin, name(p), ErrorEntry(p))
        /\ pending' = pending \ {p}
    /\ finished' = Tail(finished)
    /\ UNCHANGED <<plugins, outcome, pc, future_state, expired,
                   finished_futures, handler_index, in_time>>

\* Lines 36-44: the loop body for the next yielded future.
Yield ==
    /\ pc = "yield"
    /\ finished # <<>>
    /\ LET p == Head(finished) IN
        /\ results_by_plugin' =
              IF future_state[p] = "returned"
              THEN Store(results_by_plugin, name(p), outcome[p].value)
              ELSE Store(results_by_plugin, name(p), ErrorEntry(p))
        /\ pending' = pending \ {p}
    /\ finished' = Tail(finished)
    /\ UNCHANGED <<plugins, outcome, pc, future_state, expired,
                   finished_futures, handler_index, in_time>>

\* Every future of the batch has been yielded: back to `while pending`.
YieldEnd ==
    /\ pc = "yield"
    /\ finished = <<>>
    /\ pc' = "top"
    /\ UNCHANGED <<plugins, outcome, future_state, expired, pending,
                   finished_futures, finished, handler_index,
                   results_by_plugin, in_time>>

\* `while pending` is false: the generator ends, the for loop is over and
\* the with block is left.
LoopEnd ==
    /\ pc = "top"
    /\ pending = {}
    /\ pc' = "shutdown"
    /\ UNCHANGED <<plugins, outcome, future_state, expired, pending,
                   finished_futures, finished, handler_index,
                   results_by_plugin, in_time>>

\* wait_timeout < 0: as_completed raises TimeoutError, whatever has
\* finished since the last batch was taken; line 45 catches it.
RaiseTimeout ==
    /\ pc = "top"
    /\ pending # {}
    /\ expired
    /\ pc' = "handler"
    /\ handler_index' = 1
    /\ UNCHANGED <<plugins, outcome, future_state, expired, pending,
                   finished_futures, finished, results_by_plugin, in_time>>

\* wait_timeout >= 0: the generator waits on the waiter's event.
EnterWait ==
    /\ pc = "top"
    /\ pending # {}
    /\ ~expired
    /\ pc' = "wait"
    /\ UNCHANGED <<plugins, outcome, future_state, expired, pending,
                   finished_futures, finished, handler_index,
                   results_by_plugin, in_time>>

\* event.wait(wait_timeout) returns, because a future finished or because
\* the time is up, and the waiter's finished futures become the next batch.
Wait ==
    /\ pc = "wait"
    /\ finished_futures # <<>> \/ expired
    /\ finished' = finished_futures
    /\ finished_futures' = <<>>
    /\ pc' = "yield"
    /\ UNCHANGED <<plugins, outcome, future_state, expired, pending,
                   handler_index, results_by_plugin, in_time>>

\* Lines 47-53, one iteration: a future that is not done is cancelled
\* (which succeeds only if it has not started) and marked as timed out.
Handler ==
    /\ pc = "handler"
    /\ handler_index <= plugins
    /\ LET p == handler_index IN
        IF Done(p)
        THEN UNCHANGED <<future_state, results_by_plugin>>
        ELSE /\ future_state' =
                    IF future_state[p] = "pending"
                    THEN [future_state EXCEPT ![p] = "cancelled"]
                    ELSE future_state
             /\ results_by_plugin' =
                    Store(results_by_plugin, name(p), TimeoutEntry(p))
    /\ handler_index' = handler_index + 1
    /\ UNCHANGED <<plugins, outcome, pc, expired, pending, finished_futures,
                   finished, in_time>>

\* The except block is over: the with block is left.
HandlerEnd ==
    /\ pc = "handler"
    /\ handler_index > plugins
    /\ pc' = "shutdown"
    /\ UNCHANGED <<plugins, outcome, future_state, expired, pending,
                   finished_futures, finished, handler_index,
                   results_by_plugin, in_time>>

\* Leaving `with ThreadPoolExecutor(...)` calls shutdown(wait=True), which
\* joins the workers: it returns when no future is pending or running.
\* Line 54 then returns the mapping.
Shutdown ==
    /\ pc = "shutdown"
    /\ \A p \in Registered : Done(p)
    /\ pc' = "returned"
    /\ UNCHANGED <<plugins, outcome, future_state, expired, pending,
                   finished_futures, finished, handler_index,
                   results_by_plugin, in_time>>

\* ------------------------------------------------------- aggregate_results
VARIABLES
    findings,       \* the list handed to aggregate_results
    deduped,        \* aggregate_results(findings)
    deduped_again,  \* aggregate_results(deduped)
    agg_pc          \* "input", "once" (deduped is set), "twice"

aggVars == <<findings, deduped, deduped_again, agg_pc>>

\* The fields that make the deduplication key (line 67).
KeyFields == {"file", "line", "message", "tool"}

\* (r.get("file"), r.get("line"), r.get("message"), r.get("tool")): a field
\* the dict does not hold reads as None, so the key is r restricted to the
\* key fields it holds.
Key(r) == [k \in (DOMAIN r) \cap KeyFields |-> r[k]]

\* Lines 66-70: the loop over the remaining results.
RECURSIVE dedupe_loop(_, _, _)
dedupe_loop(rest, seen, acc) ==
    IF rest = <<>> THEN acc
    ELSE LET r == Head(rest)
             key == Key(r)
         IN  IF key \notin seen
             THEN dedupe_loop(Tail(rest), seen \cup {key}, Append(acc, r))
             ELSE dedupe_loop(Tail(rest), seen, acc)

\* A slip in line 67: the key leaves out message and tool.
RECURSIVE dedupe_file_line(_, _, _)
dedupe_file_line(rest, seen, acc) ==
    IF rest = <<>> THEN acc
    ELSE LET r == Head(rest)
             key == [k \in (DOMAIN r) \cap {"file", "line"} |-> r[k]]
         IN  IF key \notin seen
             THEN dedupe_file_line(Tail(rest), seen \cup {key}, Append(acc, r))
             ELSE dedupe_file_line(Tail(rest), seen, acc)

aggregate_results_file_line(results) == dedupe_file_line(results, {}, <<>>)

\* A slip in line 70: a later finding with a key already seen replaces the
\* one kept for that key.
RECURSIVE dedupe_last_wins(_, _)
dedupe_last_wins(rest, acc) ==
    IF rest = <<>> THEN acc
    ELSE LET r == Head(rest) IN
         IF \E i \in DOMAIN acc : Key(acc[i]) = Key(r)
         THEN dedupe_last_wins(Tail(rest),
                  [i \in DOMAIN acc |-> IF Key(acc[i]) = Key(r) THEN r ELSE acc[i]])
         ELSE dedupe_last_wins(Tail(rest), Append(acc, r))

aggregate_results_last_wins(results) == dedupe_last_wins(results, <<>>)

\* A slip in line 70: deduped.insert(0, r) instead of deduped.append(r).
RECURSIVE dedupe_prepend(_, _, _)
dedupe_prepend(rest, seen, acc) ==
    IF rest = <<>> THEN acc
    ELSE LET r == Head(rest)
             key == Key(r)
         IN  IF key \notin seen
             THEN dedupe_prepend(Tail(rest), seen \cup {key}, <<r>> \o acc)
             ELSE dedupe_prepend(Tail(rest), seen, acc)

aggregate_results_prepend(results) == dedupe_prepend(results, {}, <<>>)

\* Orchestrator.aggregate_results (lines 62-71).
aggregate_results(results) == dedupe_loop(results, {}, <<>>)

\* The findings lists are drawn from: two with the same key and different
\* severity, four that differ from the first in exactly one key field, and
\* two error entries, which hold no file, line or message.
Findings ==
    { [file |-> "a.py", line |-> 1, message |-> "m1", tool |-> "ruff", severity |-> "warning"],
      [file |-> "a.py", line |-> 1, message |-> "m1", tool |-> "ruff", severity |-> "error"],
      [file |-> "b.py", line |-> 1, message |-> "m1", tool |-> "ruff", severity |-> "warning"],
      [file |-> "a.py", line |-> 2, message |-> "m1", tool |-> "ruff", severity |-> "warning"],
      [file |-> "a.py", line |-> 1, message |-> "m2", tool |-> "ruff", severity |-> "warning"],
      [file |-> "a.py", line |-> 1, message |-> "m1", tool |-> "mypy", severity |-> "warning"],
      [tool |-> "ruff", error |-> <<"failed", "ruff">>],
      [tool |-> "ruff", error |-> TimeoutText] }

\* Every list over S of length at most n.
SeqsUpTo(S, n) == UNION {[1..k -> S] : k \in 0..n}

AggInit ==
    /\ findings \in SeqsUpTo(Findings, MaxLen)
    /\ deduped = <<>>
    /\ deduped_again = <<>>
    /\ agg_pc = "input"

AggIdle ==
    /\ findings = <<>>
    /\ deduped = <<>>
    /\ deduped_again = <<>>
    /\ agg_pc = "idle"

\* aggregate_results(findings)
Aggregate ==
    /\ agg_pc = "input"
    /\ deduped' = aggregate_results(findings)
    /\ agg_pc' = "once"
    /\ UNCHANGED <<findings, deduped_again>>

\* aggregate_results applied to its own output
AggregateAgain ==
    /\ agg_pc = "once"
    /\ deduped_again' = aggregate_results(deduped)
    /\ agg_pc' = "twice"
    /\ UNCHANGED <<findings, deduped>>

\* ------------------------------------------------------------ BaseAgent.run
VARIABLES
    code_files,     \* the files get_code_files returned, as their number
    llm_result,     \* what the detection oracle returns for each file
    file_future,    \* state of the future submitted for each file
    completed,      \* futures as_completed has still to yield, in finishing order
    all_issues,     \* the list of issues the run accumulates
    plugin_results, \* what the plugin step left: NoResults or a mapping
    review,         \* the review text
    report,         \* the AgentReport, once built
    written,        \* a report file has been written
    error,          \* why the run raised: "none", "detection", "validation"
    run_pc,         \* position of the thread that called run
    plugin_files,   \* history: the files run_plugins was called with
    reviewed_issues \* history: the list review_issues was called with

runVars == <<code_files, llm_result, file_future, completed, all_issues,
             plugin_results, review, report, written, error, run_pc,
             plugin_files, reviewed_issues>>

\* Largest number of code files explored.
NFiles == 2

\* min(8, len(code_files)) in line 369.
MaxWorkers == 8

\* Python's None as the value of a field.
None == "None"

\* models.py lines 13-24: the closed enums.
IssueType == {"debt", "improvement", "critical"}

Severity == {"low", "medium", "high"}

\* The fields of IssueOutput (models.py lines 35-42).
RequiredFields == {"type", "severity", "description", "file", "line"}

OptionalFields == {"suggestion", "remediation", "reference"}

\* What the running agent's get_expected_issue_types declares (abstract in
\* BaseAgent): here an agent for debt and improvement issues.
get_expected_issue_types == {"debt", "improvement"}

\* `not value` for an optional string field: None or the empty string.
Falsy(v) == v = None \/ v = ""

\* issue_data.get(k): the field, or None when the dict does not hold it.
Field(raw, k) == IF k \in DOMAIN raw THEN raw[k] ELSE None

\* IssueOutput without min_length on description.
ValidAnyDescription(raw) ==
    /\ RequiredFields \subseteq DOMAIN raw
    /\ raw.type \in IssueType
    /\ raw.severity \in Severity
    /\ Len(raw.file) >= 1
    /\ raw.line >= 1
    /\ raw.type \in {"debt", "improvement"} => ~Falsy(Field(raw, "suggestion"))
    /\ raw.type = "critical" =>
          /\ ~Falsy(Field(raw, "remediation"))
          /\ raw.severity = "high"

\* IssueOutput whose validator asks a suggestion of debt issues only.
ValidSuggestionDebtOnly(raw) ==
    /\ RequiredFields \subseteq DOMAIN raw
    /\ raw.type \in IssueType
    /\ raw.severity \in Severity
    /\ Len(raw.description) >= 10
    /\ Len(raw.file) >= 1
    /\ raw.line >= 1
    /\ raw.type = "debt" => ~Falsy(Field(raw, "suggestion"))
    /\ raw.type = "critical" =>
          /\ ~Falsy(Field(raw, "remediation"))
          /\ raw.severity = "high"

\* IssueOutput whose validator does not look at the severity of critical
\* issues.
ValidCriticalAnySeverity(raw) ==
    /\ RequiredFields \subseteq DOMAIN raw
    /\ raw.type \in IssueType
    /\ raw.severity \in Severity
    /\ Len(raw.description) >= 10
    /\ Len(raw.file) >= 1
    /\ raw.line >= 1
    /\ raw.type \in {"debt", "improvement"} => ~Falsy(Field(raw, "suggestion"))
    /\ raw.type = "critical" => ~Falsy(Field(raw, "remediation"))

\* IssueOutput(**raw) succeeds (models.py lines 35-57): the field
\* constraints, then validate_issue_requirements.
Valid(raw) ==
    /\ RequiredFields \subseteq DOMAIN raw
    /\ raw.type \in IssueType
    /\ raw.severity \in Severity
    /\ Len(raw.description) >= 10
    /\ Len(raw.file) >= 1
    /\ raw.line >= 1
    /\ raw.type \in {"debt", "improvement"} => ~Falsy(Field(raw, "suggestion"))
    /\ raw.type = "critical" =>
          /\ ~Falsy(Field(raw, "remediation"))
          /\ raw.severity = "high"

\* The validated issue, as model_dump() shows it: every field of the model,
\* None for an optional field that was not given; other keys are ignored.
IssueOutput(raw) ==
    [k \in RequiredFields \cup OptionalFields |-> Field(raw, k)]

\* Candidate objects the oracle may put in its JSON array.
LongFunction ==
    [type |-> "debt", severity |-> "medium", description |-> "function is too long",
     file |-> "a.py", line |-> 10, suggestion |-> "split the function"]

\* Same file and line as LongFunction, another description.
DuplicatedCode ==
    [type |-> "improvement", severity |-> "low", description |-> "duplicated code block",
     file |-> "a.py", line |-> 10, suggestion |-> "extract a helper"]

\* Same file, line and description as LongFunction, another severity.
LongFunctionHigh ==
    [type |-> "debt", severity |-> "high", description |-> "function is too long",
     file |-> "a.py", line |-> 10, suggestion |-> "split the function"]

MagicNumber ==
    [type |-> "debt", severity |-> "low", description |-> "magic number in loop",
     file |-> "b.py", line |-> 3, suggestion |-> "name the constant"]

\* Fails validation: the description is shorter than 10 characters.
ShortDescription ==
    [type |-> "debt", severity |-> "low", description |-> "bad",
     file |-> "b.py", line |-> 4, suggestion |-> "fix it"]

\* Valid, of a type this agent does not expect.
SqlInjection ==
    [type |-> "critical", severity |-> "high", description |-> "SQL injection risk",
     file |-> "main.py", line |-> 10, remediation |-> "use parameterized queries"]

Object(fields) == [t |-> "object", fields |-> fields]

Number == [t |-> "number"]

Array(items) == [t |-> "array", items |-> items]

\* The strings the oracle may return, by what json.loads makes of them: the
\* empty string (also what the detector returns when the oracle call
\* raises), text that is not JSON, and JSON documents.
OracleOutputs ==
    { [kind |-> "empty"],
      [kind |-> "text"],
      [kind |-> "json", value |-> Number],
      [kind |-> "json", value |-> Array(<<Number>>)],
      [kind |-> "json", value |-> Array(<<>>)],
      [kind |-> "json", value |-> Array(<<Object(LongFunction)>>)],
      [kind |-> "json", value |-> Array(<<Object(DuplicatedCode), Object(MagicNumber)>>)],
      [kind |-> "json", value |-> Array(<<Object(LongFunctionHigh)>>)],
      [kind |-> "json", value |-> Array(<<Object(ShortDescription), Object(MagicNumber)>>)],
      [kind |-> "json", value |-> Array(<<Object(SqlInjection)>>)],
      [kind |-> "json", value |-> Array(<<Object(SqlInjection), Object(MagicNumber)>>)] }

\* What a call returns or raises: the issues, or the exception.
Returned(issues) == [raised |-> FALSE, issues |-> issues]

Raised == [raised |-> TRUE, issues |-> <<>>]

\* The loop over the parsed array without the check of line 176: every
\* valid candidate is accepted.
RECURSIVE detect_loop_any_kind(_, _)
detect_loop_any_kind(items, detected_issues) ==
    IF items = <<>> THEN Returned(detected_issues)
    ELSE LET issue_data == Head(items) IN
         IF issue_data.t # "object" THEN Raised
         ELSE IF ~Valid(issue_data.fields)
              THEN detect_loop_any_kind(Tail(items), detected_issues)
         ELSE detect_loop_any_kind(Tail(items),
                  Append(detected_issues, IssueOutput(issue_data.fields)))

\* The loop over the parsed array, had one invalid candidate made the file
\* contribute nothing.
RECURSIVE detect_loop_all_or_nothing(_, _)
detect_loop_all_or_nothing(items, detected_issues) ==
    IF items = <<>> THEN Returned(detected_issues)
    ELSE LET issue_data == Head(items) IN
         IF issue_data.t # "object" THEN Raised
         ELSE IF ~Valid(issue_data.fields) THEN Returned(<<>>)
         ELSE IF issue_data.fields.type \in get_expected_issue_types
              THEN detect_loop_all_or_nothing(Tail(items),
                       Append(detected_issues, IssueOutput(issue_data.fields)))
         ELSE detect_loop_all_or_nothing(Tail(items), detected_issues)

\* Lines 172-181: the loop over the parsed array. A candidate that is not a
\* mapping makes IssueOutput(**issue_data) raise TypeError, which neither
\* except clause catches.
RECURSIVE detect_loop(_, _)
detect_loop(items, detected_issues) ==
    IF items = <<>> THEN Returned(detected_issues)
    ELSE LET issue_data == Head(items) IN
         IF issue_data.t # "object" THEN Raised
         ELSE IF ~Valid(issue_data.fields)
              THEN detect_loop(Tail(items), detected_issues)
         ELSE IF issue_data.fields.type \in get_expected_issue_types
              THEN detect_loop(Tail(items),
                       Append(detected_issues, IssueOutput(issue_data.fields)))
         ELSE detect_loop(Tail(items), detected_issues)

\* BaseAgent.detect_issues_in_file (lines 160-185) on the oracle's output.
\* Iterating a JSON number raises TypeError; iterating a JSON object yields
\* its keys, strings, on which IssueOutput(**key) raises TypeError.
detect_issues_in_file(llm) ==
    IF llm.kind = "empty" THEN Returned(<<>>)
    ELSE IF llm.kind = "text" THEN Returned(<<>>)
    ELSE IF llm.value.t = "array" THEN detect_loop(llm.value.items, <<>>)
    ELSE IF llm.value.t = "object" /\ DOMAIN llm.value.fields = {}
         THEN Returned(<<>>)
    ELSE Raised

Files == 1..code_files

\* The pool size, had line 369 asked for one worker per file.
WorkerPerFile(n) == IF n > 0 THEN n ELSE 1

\* Line 369, for n code files: min(8, n) if there are files, else 1.
MaxWorkersOf(n) ==
    IF n > 0 THEN (IF n < MaxWorkers THEN n ELSE MaxWorkers) ELSE 1

\* Line 369.
max_workers == MaxWorkersOf(code_files)

NoResults == [unset |-> TRUE]

NoReport == [unset |-> TRUE]

\* run_plugins has not been called.
NotCalled == [called |-> FALSE, files |-> {}]

\* Line 401: run_plugins is called with the paths of code_files.
CalledWith(files) == [called |-> TRUE, files |-> files]

\* What run_plugins left for one plugin in the mapping it returned.
PluginEntries(p) ==
    {[present |-> FALSE, value |-> <<>>]}
        \cup {[present |-> TRUE, value |-> v] :
                  v \in Returns(p) \cup {ErrorEntry(p), TimeoutEntry(p)}}

\* The mappings run_plugins can return for the plugins of line 399.
RunPluginsResults ==
    LET choices == {c \in [1..NPlugins -> UNION {PluginEntries(p) : p \in 1..NPlugins}] :
                        \A p \in 1..NPlugins : c[p] \in PluginEntries(p)}
    IN  {[n \in {name(p) : p \in {q \in 1..NPlugins : c[q].present}} |->
              c[CHOOSE p \in 1..NPlugins : name(p) = n].value] : c \in choices}

\* The review texts, by their length before and after strip().
CannedReview == [source |-> "canned", length |-> 60, stripped |-> 60]

\* reviewer.forward (lines 67-74): the oracle's text, of any length, padded
\* with white space or not, or "Review failed: " followed by the text of the
\* exception.
ReviewerOutputs ==
    { [source |-> "oracle", length |-> 40, stripped |-> 40],
      [source |-> "oracle", length |-> 2, stripped |-> 2],
      [source |-> "failed", length |-> 45, stripped |-> 45],
      [source |-> "failed", length |-> 15, stripped |-> 14],
      [source |-> "oracle", length |-> 30, stripped |-> 5] }

\* min_length of AgentReport.review (models.py line 63) and the bound of
\* validate_review (line 69).
MinReviewLength == 20

RunInit ==
    /\ code_files \in 0..NFiles
    /\ llm_result \in [1..NFiles -> OracleOutputs]
    /\ \A f \in 1..NFiles : f > code_files => llm_result[f] = [kind |-> "empty"]
    /\ file_future = [f \in 1..NFiles |-> "none"]
    /\ completed = <<>>
    /\ all_issues = <<>>
    /\ plugin_results = NoResults
    /\ review = [source |-> "none", length |-> 0, stripped |-> 0]
    /\ report = NoReport
    /\ written = FALSE
    /\ error = "none"
    /\ run_pc = "submit"
    /\ plugin_files = NotCalled
    /\ reviewed_issues = <<>>

RunIdle ==
    /\ code_files = 0
    /\ llm_result = [f \in 1..NFiles |-> [kind |-> "empty"]]
    /\ file_future = [f \in 1..NFiles |-> "none"]
    /\ completed = <<>>
    /\ all_issues = <<>>
    /\ plugin_results = NoResults
    /\ review = [source |-> "none", length |-> 0, stripped |-> 0]
    /\ report = NoReport
    /\ written = FALSE
    /\ error = "none"
    /\ run_pc = "idle"
    /\ plugin_files = NotCalled
    /\ reviewed_issues = <<>>

\* Lines 368-375: one future per code file is submitted.
SubmitFiles ==
    /\ run_pc = "submit"
    /\ file_future' = [f \in 1..NFiles |-> IF f \in Files THEN "pending" ELSE "none"]
    /\ run_pc' = "detect"
    /\ UNCHANGED <<code_files, llm_result, completed, all_issues,
                   plugin_results, review, report, written, error,
                   plugin_files, reviewed_issues>>

\* A pool worker starts process_file; the pool has max_workers workers.
StartFile(f) ==
    /\ f \in Files
    /\ file_future[f] = "pending"
    /\ Cardinality({g \in Files : file_future[g] = "running"}) < max_workers
    /\ file_future' = [file_future EXCEPT ![f] = "running"]
    /\ UNCHANGED <<code_files, llm_result, completed, all_issues,
                   plugin_results, review, report, written, error, run_pc,
                   plugin_files, reviewed_issues>>

\* process_file returns or raises: the future is finished.
FinishFile(f) ==
    /\ f \in Files
    /\ file_future[f] = "running"
    /\ file_future' = [file_future EXCEPT ![f] = "finished"]
    /\ completed' = Append(completed, f)
    /\ UNCHANGED <<code_files, llm_result, all_issues, plugin_results,
                   review, report, written, error, run_pc,
                   plugin_files, reviewed_issues>>

\* Lines 376-378: as_completed yields the next finished future;
\* future.result() returns the file's issues, which extend all_issues.
Collect ==
    /\ run_pc = "detect"
    /\ completed # <<>>
    /\ ~detect_issues_in_file(llm_result[Head(completed)]).raised
    /\ all_issues' = all_issues \o detect_issues_in_file(llm_result[Head(completed)]).issues
    /\ completed' = Tail(completed)
    /\ UNCHANGED <<code_files, llm_result, file_future, plugin_results,
                   review, report, written, error, run_pc,
                   plugin_files, reviewed_issues>>

\* Line 377: future.result() re-raises the exception of process_file, which
\* nothing in run catches.
CollectRaises ==
    /\ run_pc = "detect"
    /\ completed # <<>>
    /\ detect_issues_in_file(llm_result[Head(completed)]).raised
    /\ completed' = Tail(completed)
    /\ error' = "detection"
    /\ run_pc' = "unwinding"
    /\ UNCHANGED <<code_files, llm_result, file_future, all_issues,
                   plugin_results, review, report, written,
                   plugin_files, reviewed_issues>>

\* The exception leaves the with block, whose exit waits for the futures
\* still pending or running, and then leaves run (handle_errors re-raises).
Unwind ==
    /\ run_pc = "unwinding"
    /\ \A f \in Files : file_future[f] = "finished"
    /\ run_pc' = "raised"
    /\ UNCHANGED <<code_files, llm_result, file_future, completed, all_issues,
                   plugin_results, review, report, written, error,
                   plugin_files, reviewed_issues>>

\* The loop ends, had the with block not waited for the futures.
DetectEndEarly ==
    /\ run_pc = "detect"
    /\ completed = <<>>
    /\ run_pc' = "dedupe"
    /\ UNCHANGED <<code_files, llm_result, file_future, completed, all_issues,
                   plugin_results, review, report, written, error,
                   plugin_files, reviewed_issues>>

\* Every future has been yielded: the loop and the with block end.
DetectEnd ==
    /\ run_pc = "detect"
    /\ completed = <<>>
    /\ \A f \in Files : file_future[f] = "finished"
    /\ run_pc' = "dedupe"
    /\ UNCHANGED <<code_files, llm_result, file_future, completed, all_issues,
                   plugin_results, review, report, written, error,
                   plugin_files, reviewed_issues>>

\* Lines 383-390: aggregate_results on the model_dump() of every issue, and
\* IssueOutput(**issue) on every dict it keeps; if that raises, all_issues
\* stays as it was.
Dedupe ==
    /\ run_pc = "dedupe"
    /\ LET kept == aggregate_results(all_issues) IN
          all_issues' = IF \A i \in DOMAIN kept : Valid(kept[i])
                        THEN [i \in DOMAIN kept |-> IssueOutput(kept[i])]
                        ELSE all_issues
    /\ run_pc' = "plugins"
    /\ UNCHANGED <<code_files, llm_result, file_future, completed,
                   plugin_results, review, report, written, error,
                   plugin_files, reviewed_issues>>

\* The plugin step, had it added the findings to the issues.
RunPluginsMerging ==
    /\ run_pc = "plugins"
    /\ plugin_results' \in RunPluginsResults
    /\ all_issues' = all_issues \o
          (IF name(1) \in DOMAIN plugin_results' THEN plugin_results'[name(1)] ELSE <<>>)
    /\ run_pc' = "review"
    /\ plugin_files' = CalledWith(Files)
    /\ UNCHANGED <<code_files, llm_result, file_future, completed,
                   review, report, written, error,
                   reviewed_issues>>

\* Lines 393-402: run_plugins returns a mapping.
RunPlugins ==
    /\ run_pc = "plugins"
    /\ plugin_results' \in RunPluginsResults
    /\ run_pc' = "review"
    /\ plugin_files' = CalledWith(Files)
    /\ UNCHANGED <<code_files, llm_result, file_future, completed, all_issues,
                   review, report, written, error,
                   reviewed_issues>>

\* The plugin step without its except clause: the exception leaves run.
RunPluginsRaisesUncaught ==
    /\ run_pc = "plugins"
    /\ plugin_results' = NoResults
    /\ error' = "plugins"
    /\ run_pc' = "raised"
    /\ plugin_files' \in {NotCalled, CalledWith(Files)}
    /\ UNCHANGED <<code_files, llm_result, file_future, completed, all_issues,
                   review, report, written,
                   reviewed_issues>>

\* Lines 394-404: an import, the constructor or run_plugins raises; the
\* except clause logs it and plugin_results stays None.
RunPluginsRaises ==
    /\ run_pc = "plugins"
    /\ plugin_results' = NoResults
    /\ run_pc' = "review"
    /\ plugin_files' \in {NotCalled, CalledWith(Files)}
    /\ UNCHANGED <<code_files, llm_result, file_future, completed, all_issues,
                   review, report, written, error,
                   reviewed_issues>>

\* Line 401: run_plugins does not return while a plugin's run hangs.
RunPluginsBlocks ==
    /\ run_pc = "plugins"
    /\ run_pc' = "blocked"
    /\ plugin_files' = CalledWith(Files)
    /\ UNCHANGED <<code_files, llm_result, file_future, completed, all_issues,
                   plugin_results, review, report, written, error,
                   reviewed_issues>>

\* review_issues without lines 189-190: the reviewer is called on no issue.
ReviewCannedByOracle ==
    /\ run_pc = "review"
    /\ all_issues = <<>>
    /\ review' \in ReviewerOutputs
    /\ run_pc' = "report"
    /\ reviewed_issues' = all_issues
    /\ UNCHANGED <<code_files, llm_result, file_future, completed, all_issues,
                   plugin_results, report, written, error,
                   plugin_files>>

\* Lines 189-190: no issue, the canned text, without a call of the reviewer.
ReviewCanned ==
    /\ run_pc = "review"
    /\ all_issues = <<>>
    /\ review' = CannedReview
    /\ run_pc' = "report"
    /\ reviewed_issues' = all_issues
    /\ UNCHANGED <<code_files, llm_result, file_future, completed, all_issues,
                   plugin_results, report, written, error,
                   plugin_files>>

\* Lines 192-193: the reviewer is called on the formatted issues.
ReviewByOracle ==
    /\ run_pc = "review"
    /\ all_issues # <<>>
    /\ review' \in ReviewerOutputs
    /\ run_pc' = "report"
    /\ reviewed_issues' = all_issues
    /\ UNCHANGED <<code_files, llm_result, file_future, completed, all_issues,
                   plugin_results, report, written, error,
                   plugin_files>>

\* AgentReport without validate_review: min_length alone.
ReportValidUnstripped ==
    review.length >= MinReviewLength

\* AgentReport(issues=..., review=...) validates (models.py lines 60-71).
ReportValid ==
    /\ review.length >= MinReviewLength
    /\ review.stripped >= MinReviewLength

\* The report, had it been built from the issues in another order.
BuildReportReordered ==
    /\ run_pc = "report"
    /\ ReportValid
    /\ report' = [issues |-> [k \in DOMAIN all_issues |->
                                 all_issues[Len(all_issues) + 1 - k]],
                  review |-> review]
    /\ run_pc' = "write"
    /\ UNCHANGED <<code_files, llm_result, file_future, completed, all_issues,
                   plugin_results, review, written, error,
                   plugin_files, reviewed_issues>>

\* Line 411: the report is built.
BuildReport ==
    /\ run_pc = "report"
    /\ ReportValid
    /\ report' = [issues |-> all_issues, review |-> review]
    /\ run_pc' = "write"
    /\ UNCHANGED <<code_files, llm_result, file_future, completed, all_issues,
                   plugin_results, review, written, error,
                   plugin_files, reviewed_issues>>

\* Lines 412-414: ValidationError becomes RuntimeError, which leaves run.
BuildReportRaises ==
    /\ run_pc = "report"
    /\ ~ReportValid
    /\ error' = "validation"
    /\ run_pc' = "raised"
    /\ UNCHANGED <<code_files, llm_result, file_future, completed, all_issues,
                   plugin_results, review, report, written,
                   plugin_files, reviewed_issues>>

\* Lines 416-441: the report file is written and the report returned.
WriteAndReturn ==
    /\ run_pc = "write"
    /\ written' = TRUE
    /\ run_pc' = "returned"
    /\ UNCHANGED <<code_files, llm_result, file_future, completed, all_issues,
                   plugin_results, review, report, error,
                   plugin_files, reviewed_issues>>

\* ------------------------------------------------------------- IssueOutput
VARIABLES
    issue_data,     \* the keyword arguments IssueOutput is called with
    issue,          \* the IssueOutput built, once it is
    issue_pc        \* position of the caller of IssueOutput(**issue_data)

issueVars == <<issue_data, issue, issue_pc>>

NoIssue == [unset |-> TRUE]

\* Keyword arguments within and outside each field's constraint (models.py
\* lines 35-42): a type and a severity outside the enums, a description
\* under 10 characters, an empty file, a line under 1, optional texts empty.
IssueFieldValues ==
    [type : IssueType \cup {"security"},
     severity : Severity \cup {"urgent"},
     description : {"too long", "function is too long"},
     file : {"", "a.py"},
     line : {0, 1},
     suggestion : {"", "split the function"},
     remediation : {"", "use parameterized queries"}]

\* The calls explored: every choice of values, each optional text given or
\* left out.
IssueCalls ==
    {[k \in RequiredFields \cup given |-> full[k]] :
        full \in IssueFieldValues, given \in SUBSET {"suggestion", "remediation"}}

IssueInit ==
    /\ issue_data \in IssueCalls
    /\ issue = NoIssue
    /\ issue_pc = "call"

IssueIdle ==
    /\ issue_data = [type |-> "debt"]
    /\ issue = NoIssue
    /\ issue_pc = "idle"

\* IssueOutput(**issue_data) returns the model.
Construct ==
    /\ issue_pc = "call"
    /\ Valid(issue_data)
    /\ issue' = IssueOutput(issue_data)
    /\ issue_pc' = "returned"
    /\ UNCHANGED issue_data

\* IssueOutput(**issue_data) raises ValidationError.
ConstructRaises ==
    /\ issue_pc = "call"
    /\ ~Valid(issue_data)
    /\ issue_pc' = "raised"
    /\ UNCHANGED <<issue_data, issue>>

\* ------------------------------------------------------ orchestrate_review
VARIABLES
    agent_outcome,   \* what each agent function does: return or raise
    review_results,  \* the dict `results` orchestrate_review builds
    orch_pc          \* position of the caller: the agent called next

orchVars == <<agent_outcome, review_results, orch_pc>>

\* The keys of lines 59-77, in the order their agents are called.
Agents == <<"documentation", "debt", "improvement", "critical">>

\* An agent function returns, or raises an Exception with some text.
AgentOutcomes ==
    {[kind |-> "return"],
     [kind |-> "raise", text |-> "Agent failed!"],
     [kind |-> "raise", text |-> ""]}

\* Lines 9-47: what the agent functions return.
AgentResult(a) ==
    CASE a = "documentation" -> ("README.md" :> "Generated README content.")
      [] a = "debt" ->
            <<[type |-> "debt", severity |-> "low",
               description |-> "Example technical debt.", file |-> "main.py",
               line |-> 10, suggestion |-> "Refactor function.",
               reference |-> "https://example.com/debt"]>>
      [] a = "improvement" ->
            <<[type |-> "improvement", severity |-> "medium",
               description |-> "Example improvement.", file |-> "utils.py",
               line |-> 5, suggestion |-> "Optimize loop.",
               reference |-> "https://example.com/improvement"]>>
      [] a = "critical" ->
            <<[type |-> "critical", severity |-> "high",
               description |-> "Example critical issue.", file |-> "security.py",
               line |-> 42, remediation |-> "Fix authentication bug.",
               reference |-> "https://example.com/critical"]>>

\* Lines 62, 67, 72, 77: a dict for documentation, a list of one dict for
\* the other agents.
AgentError(a, text) ==
    IF a = "documentation" THEN [error |-> text] ELSE <<[error |-> text]>>

\* The position after the try statement of agent a.
After(a) ==
    LET i == CHOOSE k \in DOMAIN Agents : Agents[k] = a
    IN  IF i < Len(Agents) THEN Agents[i + 1] ELSE "return"

OrchInit ==
    /\ agent_outcome \in [Range(Agents) -> AgentOutcomes]
    /\ review_results = EmptyMap
    /\ orch_pc = Agents[1]

OrchIdle ==
    /\ agent_outcome = [a \in Range(Agents) |-> [kind |-> "return"]]
    /\ review_results = EmptyMap
    /\ orch_pc = "idle"

\* The try body: the agent returns and its result is stored.
AgentReturns ==
    /\ orch_pc \in Range(Agents)
    /\ agent_outcome[orch_pc].kind = "return"
    /\ review_results' = Store(review_results, orch_pc, AgentResult(orch_pc))
    /\ orch_pc' = After(orch_pc)
    /\ UNCHANGED agent_outcome

\* The agent's exception, had no except clause caught it.
AgentRaisesUncaught ==
    /\ orch_pc \in Range(Agents)
    /\ agent_outcome[orch_pc].kind = "raise"
    /\ orch_pc' = "raised"
    /\ UNCHANGED <<agent_outcome, review_results>>

\* The except clause: the agent raises and the error entry is stored.
AgentRaises ==
    /\ orch_pc \in Range(Agents)
    /\ agent_outcome[orch_pc].kind = "raise"
    /\ review_results' = Store(review_results, orch_pc,
                               AgentError(orch_pc, agent_outcome[orch_pc].text))
    /\ orch_pc' = After(orch_pc)
    /\ UNCHANGED agent_outcome

\* Lines 78-79.
ReturnResults ==
    /\ orch_pc = "return"
    /\ orch_pc' = "returned"
    /\ UNCHANGED <<agent_outcome, review_results>>

\* ------------------------------------------------------------------ server
VARIABLES
    codebases,  \* the module's dict of uploaded codebases, by id
    reviews,    \* the module's dict of reviews, by id
    request,    \* the request handled last
    response    \* the response it got

serverVars == <<codebases, reviews, request, response>>

\* Largest number of codebases, and of reviews, explored.
MaxStored == 2

\* main.py line 15, without the environment's override.
MAX_FILE_SIZE == 524288000

\* f"cb_{n}" and f"rv_{n}" (lines 39, 51).
CodebaseId(n) == <<"cb", n>>

ReviewId(n) == <<"rv", n>>

\* The ids a client may send: ids of either kind, issued or not yet, and
\* an id of neither form.
RequestIds ==
    {CodebaseId(n) : n \in 1..MaxStored} \cup {ReviewId(n) : n \in 1..MaxStored}
        \cup {<<"nonexistent", 0>>}

\* len(contents) of the uploads explored.
UploadSizes == {1024, MAX_FILE_SIZE, MAX_FILE_SIZE + 1}

\* Lines 53-88: the placeholder outputs stored for a review.
PlaceholderOutputs ==
    [documentation |-> ("README.md" :> "Sample README content."),
     debt |-> <<[type |-> "debt", severity |-> "low",
                 description |-> "Sample technical debt issue.", file |-> "main.py",
                 line |-> 10, suggestion |-> "Refactor function.",
                 reference |-> "https://example.com/debt"]>>,
     improvement |-> <<[type |-> "improvement", severity |-> "medium",
                        description |-> "Sample improvement opportunity.",
                        file |-> "utils.py", line |-> 5,
                        suggestion |-> "Optimize loop.",
                        reference |-> "https://example.com/improvement"]>>,
     critical |-> <<[type |-> "critical", severity |-> "high",
                     description |-> "Sample critical issue.", file |-> "security.py",
                     line |-> 42, remediation |-> "Fix authentication bug.",
                     reference |-> "https://example.com/critical"]>>]

\* JSONResponse(content), status 200.
Ok(content) == [status_code |-> 200, content |-> content]

\* Lines 100-102: what the handler of HTTPException answers.
HttpError(status_code, detail) ==
    [status_code |-> status_code, content |-> [error |-> detail]]

\* The server has started and handled no request.
ServerInit ==
    /\ codebases = EmptyMap
    /\ reviews = EmptyMap
    /\ request = [op |-> "none"]
    /\ response = [status_code |-> 0, content |-> EmptyMap]

\* Lines 38-42: the upload is stored under the next id.
UploadCodebase(size) ==
    /\ size <= MAX_FILE_SIZE
    /\ Cardinality(DOMAIN codebases) < MaxStored
    /\ request' = [op |-> "upload_codebase", size |-> size]
    /\ LET codebase_id == CodebaseId(Cardinality(DOMAIN codebases) + 1) IN
          /\ codebases' = Store(codebases, codebase_id, size)
          /\ response' = Ok([status |-> "uploaded", id |-> codebase_id])
    /\ UNCHANGED reviews

\* Lines 36-37.
UploadTooLarge(size) ==
    /\ size > MAX_FILE_SIZE
    /\ request' = [op |-> "upload_codebase", size |-> size]
    /\ response' = HttpError(413, "Payload too large. Max 500MB allowed.")
    /\ UNCHANGED <<codebases, reviews>>

\* Lines 50-90: a review of a stored codebase is stored under the next id.
TriggerReview(id) ==
    /\ id \in DOMAIN codebases
    /\ Cardinality(DOMAIN reviews) < MaxStored
    /\ request' = [op |-> "trigger_review", id |-> id]
    /\ LET review_id == ReviewId(Cardinality(DOMAIN reviews) + 1) IN
          /\ reviews' = Store(reviews, review_id, PlaceholderOutputs)
          /\ response' = Ok([status |-> "review_started", id |-> review_id])
    /\ UNCHANGED codebases

\* trigger_review without lines 47-49: a review of any id is stored.
TriggerReviewUnchecked(id) ==
    /\ id \notin DOMAIN codebases
    /\ Cardinality(DOMAIN reviews) < MaxStored
    /\ request' = [op |-> "trigger_review", id |-> id]
    /\ LET review_id == ReviewId(Cardinality(DOMAIN reviews) + 1) IN
          /\ reviews' = Store(reviews, review_id, PlaceholderOutputs)
          /\ response' = Ok([status |-> "review_started", id |-> review_id])
    /\ UNCHANGED codebases

\* Lines 47-49.
TriggerReviewNotFound(id) ==
    /\ id \notin DOMAIN codebases
    /\ request' = [op |-> "trigger_review", id |-> id]
    /\ response' = HttpError(404, "Codebase not found.")
    /\ UNCHANGED <<codebases, reviews>>

\* Lines 97-98.
GetResults(id) ==
    /\ id \in DOMAIN reviews
    /\ request' = [op |-> "get_results", id |-> id]
    /\ response' = Ok(reviews[id])
    /\ UNCHANGED <<codebases, reviews>>

\* Lines 94-96.
GetResultsNotFound(id) ==
    /\ id \notin DOMAIN reviews
    /\ request' = [op |-> "get_results", id |-> id]
    /\ response' = HttpError(404, "Review not found.")
    /\ UNCHANGED <<codebases, reviews>>

\* ----------------------------------------------------- per-file fan-out
\* Lines 367-378 of BaseAgent.run for many files, what the oracle returns
\* left out: the pool, its tasks and the loop that collects them.
VARIABLES
    fan_files,     \* len(code_files)
    submitted,     \* the futures submitted so far, as their number
    detect_task,   \* state of the task of each file
    oracle_calls,  \* history: calls of detector.forward made for each file
    folded,        \* files whose issues were added to all_issues
    fan_pc         \* position of the thread that called run

fanVars == <<fan_files, submitted, detect_task, oracle_calls, folded, fan_pc>>

\* Largest number of code files explored in the fan-out.
NManyFiles == 9

\* The detection calls in progress.
InProgress == {f \in 1..NManyFiles : detect_task[f] = "running"}

FanInit ==
    /\ fan_files \in 0..NManyFiles
    /\ submitted = 0
    /\ detect_task = [f \in 1..NManyFiles |-> "none"]
    /\ oracle_calls = [f \in 1..NManyFiles |-> 0]
    /\ folded = {}
    /\ fan_pc = "submit"

FanIdle ==
    /\ fan_files = 0
    /\ submitted = 0
    /\ detect_task = [f \in 1..NManyFiles |-> "none"]
    /\ oracle_calls = [f \in 1..NManyFiles |-> 0]
    /\ folded = {}
    /\ fan_pc = "idle"

\* Line 375: executor.submit(process_file, cf) for the next code file.
FanSubmit ==
    /\ fan_pc = "submit"
    /\ submitted < fan_files
    /\ detect_task' = [detect_task EXCEPT ![submitted + 1] = "pending"]
    /\ submitted' = submitted + 1
    /\ UNCHANGED <<fan_files, oracle_calls, folded, fan_pc>>

\* Line 375: the comprehension is over; line 376 calls as_completed.
FanSubmitEnd ==
    /\ fan_pc = "submit"
    /\ submitted = fan_files
    /\ fan_pc' = "collect"
    /\ UNCHANGED <<fan_files, submitted, detect_task, oracle_calls, folded>>

\* A worker that ran the task of a file again after it finished.
WorkerStartAgain(f) ==
    /\ detect_task[f] \in {"pending", "finished"}
    /\ f \notin folded
    /\ Cardinality(InProgress) < MaxWorkersOf(fan_files)
    /\ detect_task' = [detect_task EXCEPT ![f] = "running"]
    /\ oracle_calls' = [oracle_calls EXCEPT ![f] = @ + 1]
    /\ UNCHANGED <<fan_files, submitted, folded, fan_pc>>

\* A free worker of the pool takes the oldest work item of the queue and
\* calls process_file, which calls detector.forward (lines 162-165); the
\* pool has max_workers workers (line 374).
WorkerStart(f) ==
    /\ detect_task[f] = "pending"
    /\ \A g \in 1..(f - 1) : detect_task[g] # "pending"
    /\ Cardinality(InProgress) < MaxWorkersOf(fan_files)
    /\ detect_task' = [detect_task EXCEPT ![f] = "running"]
    /\ oracle_calls' = [oracle_calls EXCEPT ![f] = @ + 1]
    /\ UNCHANGED <<fan_files, submitted, folded, fan_pc>>

\* process_file ends: the future is finished.
WorkerFinish(f) ==
    /\ detect_task[f] = "running"
    /\ detect_task' = [detect_task EXCEPT ![f] = "finished"]
    /\ UNCHANGED <<fan_files, submitted, oracle_calls, folded, fan_pc>>

\* Lines 376-378: as_completed yields a finished future it has not yielded
\* yet, and its issues extend all_issues.
FanCollect(f) ==
    /\ fan_pc = "collect"
    /\ detect_task[f] = "finished"
    /\ f \notin folded
    /\ folded' = folded \cup {f}
    /\ UNCHANGED <<fan_files, submitted, detect_task, oracle_calls, fan_pc>>

\* Every future has been yielded: the loop and the with block end.
FanEnd ==
    /\ fan_pc = "collect"
    /\ folded = 1..fan_files
    /\ fan_pc' = "done"
    /\ UNCHANGED <<fan_files, submitted, detect_task, oracle_calls, folded>>

\* ------------------------------------------------------------ specifications
vars == <<pluginVars, aggVars, runVars, issueVars, orchVars, serverVars, fanVars>>

PluginIdle ==
    /\ plugins = 0
    /\ outcome = [p \in 1..NPlugins |-> [kind |-> "hang"]]
    /\ pc = "idle"
    /\ future_state = [p \in 1..NPlugins |-> "none"]
    /\ expired = FALSE
    /\ pending = {}
    /\ finished_futures = <<>>
    /\ finished = <<>>
    /\ handler_index = 0
    /\ results_by_plugin = EmptyMap
    /\ in_time = {}

PluginSpecInit == PluginInit /\ AggIdle /\ RunIdle /\ IssueIdle /\ OrchIdle /\ ServerInit /\ FanIdle

PluginNext ==
    \/ ReturnEmpty /\ UNCHANGED <<aggVars, runVars, issueVars, orchVars, serverVars, fanVars>>
    \/ Submit /\ UNCHANGED <<aggVars, runVars, issueVars, orchVars, serverVars, fanVars>>
    \/ \E p \in 1..NPlugins : Start(p) /\ UNCHANGED <<aggVars, runVars, issueVars, orchVars, serverVars, fanVars>>
    \/ \E p \in 1..NPlugins : Finish(p) /\ UNCHANGED <<aggVars, runVars, issueVars, orchVars, serverVars, fanVars>>
    \/ AsCompletedStart /\ UNCHANGED <<aggVars, runVars, issueVars, orchVars, serverVars, fanVars>>
    \/ Expire /\ UNCHANGED <<aggVars, runVars, issueVars, orchVars, serverVars, fanVars>>
    \/ Yield /\ UNCHANGED <<aggVars, runVars, issueVars, orchVars, serverVars, fanVars>>
    \/ YieldEnd /\ UNCHANGED <<aggVars, runVars, issueVars, orchVars, serverVars, fanVars>>
    \/ LoopEnd /\ UNCHANGED <<aggVars, runVars, issueVars, orchVars, serverVars, fanVars>>
    \/ RaiseTimeout /\ UNCHANGED <<aggVars, runVars, issueVars, orchVars, serverVars, fanVars>>
    \/ EnterWait /\ UNCHANGED <<aggVars, runVars, issueVars, orchVars, serverVars, fanVars>>
    \/ Wait /\ UNCHANGED <<aggVars, runVars, issueVars, orchVars, serverVars, fanVars>>
    \/ Handler /\ UNCHANGED <<aggVars, runVars, issueVars, orchVars, serverVars, fanVars>>
    \/ HandlerEnd /\ UNCHANGED <<aggVars, runVars, issueVars, orchVars, serverVars, fanVars>>
    \/ Shutdown /\ UNCHANGED <<aggVars, runVars, issueVars, orchVars, serverVars, fanVars>>

\* One call of run_plugins.
PluginSpec == PluginSpecInit /\ [][PluginNext]_vars

\* The same, with the scheduling the thread pool and the clock give: a step
\* that can be taken is eventually taken.
PluginFairSpec == PluginSpec /\ WF_vars(PluginNext)

AggSpecInit == AggInit /\ PluginIdle /\ RunIdle /\ IssueIdle /\ OrchIdle /\ ServerInit /\ FanIdle

AggNext ==
    \/ Aggregate /\ UNCHANGED <<pluginVars, runVars, issueVars, orchVars, serverVars, fanVars>>
    \/ AggregateAgain /\ UNCHANGED <<pluginVars, runVars, issueVars, orchVars, serverVars, fanVars>>

\* aggregate_results on every list of findings within the bounds.
AggSpec == AggSpecInit /\ [][AggNext]_vars

RunSpecInit == RunInit /\ PluginIdle /\ AggIdle /\ IssueIdle /\ OrchIdle /\ ServerInit /\ FanIdle

RunNext ==
    \/ SubmitFiles /\ UNCHANGED <<pluginVars, aggVars, issueVars, orchVars, serverVars, fanVars>>
    \/ \E f \in 1..NFiles : StartFile(f) /\ UNCHANGED <<pluginVars, aggVars, issueVars, orchVars, serverVars, fanVars>>
    \/ \E f \in 1..NFiles : FinishFile(f) /\ UNCHANGED <<pluginVars, aggVars, issueVars, orchVars, serverVars, fanVars>>
    \/ Collect /\ UNCHANGED <<pluginVars, aggVars, issueVars, orchVars, serverVars, fanVars>>
    \/ CollectRaises /\ UNCHANGED <<pluginVars, aggVars, issueVars, orchVars, serverVars, fanVars>>
    \/ Unwind /\ UNCHANGED <<pluginVars, aggVars, issueVars, orchVars, serverVars, fanVars>>
    \/ DetectEnd /\ UNCHANGED <<pluginVars, aggVars, issueVars, orchVars, serverVars, fanVars>>
    \/ Dedupe /\ UNCHANGED <<pluginVars, aggVars, issueVars, orchVars, serverVars, fanVars>>
    \/ RunPlugins /\ UNCHANGED <<pluginVars, aggVars, issueVars, orchVars, serverVars, fanVars>>
    \/ RunPluginsRaises /\ UNCHANGED <<pluginVars, aggVars, issueVars, orchVars, serverVars, fanVars>>
    \/ RunPluginsBlocks /\ UNCHANGED <<pluginVars, aggVars, issueVars, orchVars, serverVars, fanVars>>
    \/ ReviewCanned /\ UNCHANGED <<pluginVars, aggVars, issueVars, orchVars, serverVars, fanVars>>
    \/ ReviewByOracle /\ UNCHANGED <<pluginVars, aggVars, issueVars, orchVars, serverVars, fanVars>>
    \/ BuildReport /\ UNCHANGED <<pluginVars, aggVars, issueVars, orchVars, serverVars, fanVars>>
    \/ BuildReportRaises /\ UNCHANGED <<pluginVars, aggVars, issueVars, orchVars, serverVars, fanVars>>
    \/ WriteAndReturn /\ UNCHANGED <<pluginVars, aggVars, issueVars, orchVars, serverVars, fanVars>>

\* One call of BaseAgent.run, from the submission of the per-file tasks.
RunSpec == RunSpecInit /\ [][RunNext]_vars

IssueSpecInit == IssueInit /\ PluginIdle /\ AggIdle /\ RunIdle /\ OrchIdle /\ ServerInit /\ FanIdle

IssueNext ==
    \/ Construct /\ UNCHANGED <<pluginVars, aggVars, runVars, orchVars, serverVars, fanVars>>
    \/ ConstructRaises /\ UNCHANGED <<pluginVars, aggVars, runVars, orchVars, serverVars, fanVars>>

\* IssueOutput(**issue_data) on every call within the explored values.
IssueSpec == IssueSpecInit /\ [][IssueNext]_vars

OrchSpecInit == OrchInit /\ PluginIdle /\ AggIdle /\ RunIdle /\ IssueIdle /\ ServerInit /\ FanIdle

OrchNext ==
    \/ AgentReturns /\ UNCHANGED <<pluginVars, aggVars, runVars, issueVars, serverVars, fanVars>>
    \/ AgentRaises /\ UNCHANGED <<pluginVars, aggVars, runVars, issueVars, serverVars, fanVars>>
    \/ ReturnResults /\ UNCHANGED <<pluginVars, aggVars, runVars, issueVars, serverVars, fanVars>>

\* One call of orchestrate_review, each agent returning or raising.
OrchSpec == OrchSpecInit /\ [][OrchNext]_vars

ServerSpecInit ==
    ServerInit /\ PluginIdle /\ AggIdle /\ RunIdle /\ IssueIdle /\ OrchIdle /\ FanIdle

ServerNext ==
    \/ \E size \in UploadSizes :
          UploadCodebase(size) /\ UNCHANGED <<pluginVars, aggVars, runVars, issueVars, orchVars, fanVars>>
    \/ \E size \in UploadSizes :
          UploadTooLarge(size) /\ UNCHANGED <<pluginVars, aggVars, runVars, issueVars, orchVars, fanVars>>
    \/ \E id \in RequestIds :
          TriggerReview(id) /\ UNCHANGED <<pluginVars, aggVars, runVars, issueVars, orchVars, fanVars>>
    \/ \E id \in RequestIds :
          TriggerReviewNotFound(id) /\ UNCHANGED <<pluginVars, aggVars, runVars, issueVars, orchVars, fanVars>>
    \/ \E id \in RequestIds :
          GetResults(id) /\ UNCHANGED <<pluginVars, aggVars, runVars, issueVars, orchVars, fanVars>>
    \/ \E id \in RequestIds :
          GetResultsNotFound(id) /\ UNCHANGED <<pluginVars, aggVars, runVars, issueVars, orchVars, fanVars>>

\* The server handling any sequence of requests, one at a time.
ServerSpec == ServerSpecInit /\ [][ServerNext]_vars

FanSpecInit ==
    FanInit /\ PluginIdle /\ AggIdle /\ RunIdle /\ IssueIdle /\ OrchIdle /\ ServerInit

FanNext ==
    \/ FanSubmit /\ UNCHANGED <<pluginVars, aggVars, runVars, issueVars, orchVars, serverVars>>
    \/ FanSubmitEnd /\ UNCHANGED <<pluginVars, aggVars, runVars, issueVars, orchVars, serverVars>>
    \/ \E f \in 1..NManyFiles :
          WorkerStart(f) /\ UNCHANGED <<pluginVars, aggVars, runVars, issueVars, orchVars, serverVars>>
    \/ \E f \in 1..NManyFiles :
          WorkerFinish(f) /\ UNCHANGED <<pluginVars, aggVars, runVars, issueVars, orchVars, serverVars>>
    \/ \E f \in 1..NManyFiles :
          FanCollect(f) /\ UNCHANGED <<pluginVars, aggVars, runVars, issueVars, orchVars, serverVars>>
    \/ FanEnd /\ UNCHANGED <<pluginVars, aggVars, runVars, issueVars, orchVars, serverVars>>

\* The per-file fan-out of one call of BaseAgent.run, for up to NManyFiles
\* code files.
FanSpec == FanSpecInit /\ [][FanNext]_vars

ThreadsSpecInit ==
    /\ \/ PluginInit /\ RunIdle
       \/ PluginIdle /\ RunInit
    /\ AggIdle /\ IssueIdle /\ OrchIdle /\ ServerInit /\ FanIdle

ThreadsNext ==
    \/ PluginNext
    \/ RunNext

\* One call of run_plugins, or one call of BaseAgent.run: the two places
\* where worker threads run beside the thread that collects their results.
ThreadsSpec == ThreadsSpecInit /\ [][ThreadsNext]_vars

\* ============================================================ claims
\* Helpers of the formulas below.
\* The elements of a set of integers in increasing order.
RECURSIVE Ascending(_)
Ascending(S) ==
    IF S = {} THEN <<>>
    ELSE LET m == CHOOSE x \in S : \A y \in S : x <= y
         IN  <<m>> \o Ascending(S \ {m})

\* The positions of a list that hold the first finding with their key.
FirstPositions(s) ==
    {i \in DOMAIN s : \A j \in 1..(i - 1) : Key(s[j]) # Key(s[i])}

\* What the plugin's run produced: the list it returned, or the error entry
\* of the exception it raised.
RealResult(p) ==
    IF outcome[p].kind = "return" THEN outcome[p].value ELSE ErrorEntry(p)

HasKey(p) == name(p) \in DOMAIN results_by_plugin

\* as_completed raised TimeoutError in this call.
TimedOut == handler_index > 0

\* C1: when run_plugins returns with at least one plugin registered, the
\* mapping has a key for the name of every registered plugin.
C1_EveryPluginHasKey ==
    (pc = "returned" /\ plugins >= 1) => \A p \in Registered : HasKey(p)

\* C2: when run_plugins returns, a plugin whose run raised before the
\* deadline has as its value the one error entry {tool, error: str(e)}, and
\* every other plugin that finished before the deadline has the list its run
\* returned.
C2_FailureIsolated ==
    pc = "returned" =>
        \A p \in Registered :
            (outcome[p].kind = "raise" /\ p \in in_time) =>
                /\ HasKey(p)
                /\ results_by_plugin[name(p)] = ErrorEntry(p)
                /\ \A q \in Registered \ {p} :
                      (q \in in_time /\ outcome[q].kind = "return") =>
                          /\ HasKey(q)
                          /\ results_by_plugin[name(q)] = outcome[q].value

\* C3: when run_plugins returns after the batch timeout has expired, every
\* plugin whose task had not finished at expiry has the timeout entry, whose
\* error text holds the word "timeout", and every plugin whose task finished
\* before expiry has what its run produced.
C3_TimeoutMarksExactlyUnfinished ==
    (pc = "returned" /\ TimedOut) =>
        \A p \in Registered :
            /\ HasKey(p)
            /\ p \in in_time => results_by_plugin[name(p)] = RealResult(p)
            /\ p \notin in_time =>
                  /\ Len(results_by_plugin[name(p)]) = 1
                  /\ "timeout" \in Range(results_by_plugin[name(p)][1].error)

\* C4: run_plugins eventually returns, also when a registered plugin's run
\* never returns.
C4_EventuallyReturns == <>(pc = "returned")

\* C5: the keys (file, line, message, tool) of the output of
\* aggregate_results are the keys of its input, each exactly once.
C5_KeysKeptOnce ==
    agg_pc \in {"once", "twice"} =>
        /\ {Key(r) : r \in Range(deduped)} = {Key(r) : r \in Range(findings)}
        /\ \A i, j \in DOMAIN deduped :
              Key(deduped[i]) = Key(deduped[j]) => i = j

\* Several keys, one of them twice, went through aggregate_results.
C5_Witness ==
    /\ agg_pc = "once"
    /\ Len(deduped) >= 2
    /\ Len(deduped) < Len(findings)

\* C6: the output of aggregate_results is the input restricted to the first
\* finding of each key, in input order.
C6_FirstOccurrenceInOrder ==
    agg_pc \in {"once", "twice"} =>
        LET kept == Ascending(FirstPositions(findings))
        IN  deduped = [k \in 1..Len(kept) |-> findings[kept[k]]]

\* Two different findings with one key went in, with another finding
\* between them, and the earlier one came out.
C6_Witness ==
    /\ agg_pc = "once"
    /\ Len(findings) = 3
    /\ Key(findings[1]) = Key(findings[3])
    /\ findings[1] # findings[3]
    /\ Key(findings[2]) # Key(findings[1])
    /\ deduped = <<findings[1], findings[2]>>

\* C7: aggregate_results applied to its own output returns that output.
C7_Idempotent ==
    agg_pc = "twice" => deduped_again = deduped

\* The second application ran on the output of a list with a repeated key.
C7_Witness ==
    /\ agg_pc = "twice"
    /\ Len(deduped) >= 2
    /\ Len(deduped) < Len(findings)
    /\ deduped_again = deduped

\* The issues per-file detection accepted in this run, over all files.
Accepted == UNION {Range(detect_issues_in_file(llm_result[f]).issues) : f \in Files}

\* The merge key of an issue: file, line and description (an issue holds no
\* tool, so the key's fourth part is the same for all).
MergeKey(i) == <<i.file, i.line, i.description>>

\* The accepted issues of files 1..n, concatenated in the order of the files.
RECURSIVE InFileOrder(_)
InFileOrder(n) ==
    IF n = 0 THEN <<>>
    ELSE InFileOrder(n - 1) \o detect_issues_in_file(llm_result[n]).issues

\* C8: the issues of the returned report hold exactly one issue for each
\* merge key (file, line, description) among the accepted issues.
C8_OneIssuePerMergeKey ==
    run_pc = "returned" =>
        /\ {MergeKey(i) : i \in Range(report.issues)} = {MergeKey(i) : i \in Accepted}
        /\ \A j, k \in DOMAIN report.issues :
              MergeKey(report.issues[j]) = MergeKey(report.issues[k]) => j = k

\* C9: the issue list of the returned report does not depend on the order
\* in which the detection tasks complete: it is the list of the run in
\* which they complete in the order of the files.
C9_OrderIndependent ==
    run_pc = "returned" => report.issues = aggregate_results(InFileOrder(code_files))

\* C10: the run never raises because of what the oracle returned for a
\* file, and a returned report holds, for every issue accepted from any
\* file, an issue of that file and line.
C10_BadFileNeverAborts ==
    /\ error # "detection"
    /\ run_pc = "returned" =>
          \A i \in Accepted : \E j \in DOMAIN report.issues :
              /\ report.issues[j].file = i.file
              /\ report.issues[j].line = i.line

\* C11: once the review is composed, if it is shorter than 20 characters
\* after stripping, no report is ever built, no report file is written, the
\* run never reaches its return, and when it has ended it has raised on the
\* validation of the report.
C11_ValidationFailureEmitsNothing ==
    (review.source # "none" /\ review.stripped < MinReviewLength) =>
        /\ report = NoReport
        /\ ~written
        /\ run_pc \in {"report", "raised"}
        /\ run_pc = "raised" => error = "validation"

\* A run over issues whose review was long enough only by its white space
\* has raised on validation.
C11_Witness ==
    /\ run_pc = "raised"
    /\ error = "validation"
    /\ all_issues # <<>>
    /\ review.length >= MinReviewLength
    /\ review.stripped < MinReviewLength

\* C12: a run ends without a report only when the validation of the report
\* failed: it raises for no other reason and it is never kept from
\* returning by the plugin step.
C12_OnlyValidationIsFatal ==
    /\ run_pc \in {"unwinding", "raised"} => error = "validation"
    /\ run_pc # "blocked"

\* C13: once the review is composed, it is the canned text, composed
\* without a call of the reviewer, exactly when the deduplicated list is
\* empty; the reviewer was called only on a list that is not empty.
C13_ReviewerOnlyOnIssues ==
    review.source # "none" =>
        /\ all_issues = <<>> <=> review = CannedReview
        /\ review.source \in {"oracle", "failed"} => all_issues # <<>>

\* A run over a file whose candidates were all dropped returned with the
\* canned review.
C13_Witness ==
    /\ run_pc = "returned"
    /\ code_files >= 1
    /\ \E f \in Files : llm_result[f].kind = "json"
    /\ all_issues = <<>>
    /\ report.review = CannedReview

\* C16: every issue of a returned report has its kind and severity in the
\* enums, a line of at least 1, a description of at least 10 characters, a
\* suggestion when it is a debt or improvement issue, and a remediation and
\* high severity when it is a critical issue.
C16_ReportIssuesConsistent ==
    run_pc = "returned" =>
        \A k \in DOMAIN report.issues :
            LET i == report.issues[k] IN
            /\ i.type \in {"debt", "improvement", "critical"}
            /\ i.severity \in {"low", "medium", "high"}
            /\ i.line >= 1
            /\ Len(i.description) >= 10
            /\ i.type \in {"debt", "improvement"} =>
                  (i.suggestion # None /\ i.suggestion # "")
            /\ i.type = "critical" =>
                  (i.remediation # None /\ i.remediation # "" /\ i.severity = "high")

\* A report with an issue was returned by a run in which the oracle also
\* proposed a candidate that fails validation.
C16_Witness ==
    /\ run_pc = "returned"
    /\ report.issues # <<>>
    /\ \E f \in Files :
          /\ llm_result[f].kind = "json"
          /\ llm_result[f].value.t = "array"
          /\ Object(ShortDescription) \in Range(llm_result[f].value.items)

\* C17: the plugin step leaves the issue list as it found it, whatever the
\* plugins returned, and the issues of a returned report are that list, all
\* of them issues accepted from the oracle.
C17_PluginsLeaveIssues ==
    /\ [](run_pc = "returned" =>
             /\ report.issues = all_issues
             /\ Range(report.issues) \subseteq Accepted)
    /\ [][run_pc = "plugins" => all_issues' = all_issues]_vars

\* A report with an issue was returned after the plugins returned findings.
C17_Witness ==
    /\ run_pc = "returned"
    /\ report.issues # <<>>
    /\ plugin_results # NoResults
    /\ \E n \in DOMAIN plugin_results :
          \E k \in DOMAIN plugin_results[n] : "message" \in DOMAIN plugin_results[n][k]

\* C14: a call of IssueOutput for a debt or improvement issue whose
\* suggestion is left out or empty raises and builds no issue, whatever the
\* other fields.
C14_SuggestionRequired ==
    (/\ issue_pc \in {"returned", "raised"}
     /\ issue_data.type \in {"debt", "improvement"}
     /\ ("suggestion" \notin DOMAIN issue_data \/ issue_data.suggestion = ""))
        => (issue_pc = "raised" /\ issue = NoIssue)

\* An improvement issue with no suggestion, a remediation instead and
\* every other field within its constraint was rejected.
C14_Witness ==
    /\ issue_pc = "raised"
    /\ issue_data.type = "improvement"
    /\ "suggestion" \notin DOMAIN issue_data
    /\ "remediation" \in DOMAIN issue_data /\ issue_data.remediation # ""
    /\ issue_data.severity = "high"
    /\ Len(issue_data.description) >= 10
    /\ issue_data.file # ""
    /\ issue_data.line >= 1

\* C15: a call of IssueOutput for a critical issue raises when the severity
\* is not high, also with a remediation, and raises when the remediation is
\* left out or empty, also with high severity; it returns only with a
\* non-empty remediation and high severity.
C15_CriticalNeedsRemediationAndHigh ==
    (issue_pc \in {"returned", "raised"} /\ issue_data.type = "critical") =>
        /\ issue_data.severity # "high" => issue_pc = "raised"
        /\ ("remediation" \notin DOMAIN issue_data \/ issue_data.remediation = "")
              => issue_pc = "raised"
        /\ issue_pc = "returned" =>
              /\ "remediation" \in DOMAIN issue_data
              /\ issue_data.remediation # ""
              /\ issue_data.severity = "high"
              /\ issue.remediation = issue_data.remediation

\* A critical issue with a remediation, low severity and every other field
\* within its constraint was rejected.
C15_Witness ==
    /\ issue_pc = "raised"
    /\ issue_data.type = "critical"
    /\ "remediation" \in DOMAIN issue_data /\ issue_data.remediation # ""
    /\ issue_data.severity = "low"
    /\ Len(issue_data.description) >= 10
    /\ issue_data.file # ""
    /\ issue_data.line >= 1

\* One plugin is registered, its run returns a finding, and run_plugins has
\* returned without as_completed raising TimeoutError.
OnePluginReported ==
    /\ pc = "returned"
    /\ plugins = 1
    /\ outcome[1].kind = "return"
    /\ outcome[1].value # <<>>
    /\ ~TimedOut

C19_FourKeysAlways ==
    /\ orch_pc # "raised"
    /\ orch_pc = "returned" =>
          /\ DOMAIN review_results = {"documentation", "debt", "improvement", "critical"}
          /\ \A a \in DOMAIN review_results :
                /\ agent_outcome[a].kind = "return" =>
                      review_results[a] = AgentResult(a)
                /\ (agent_outcome[a].kind = "raise" /\ a = "documentation") =>
                      /\ "error" \in DOMAIN review_results[a]
                      /\ review_results[a].error = agent_outcome[a].text
                /\ (agent_outcome[a].kind = "raise" /\ a # "documentation") =>
                      /\ Len(review_results[a]) = 1
                      /\ DOMAIN review_results[a][1] = {"error"}
                      /\ review_results[a][1].error = agent_outcome[a].text

\* The documentation and improvement agents raised, and the agents called
\* after each of them returned their results.
C19_Witness ==
    /\ orch_pc = "returned"
    /\ agent_outcome["documentation"].kind = "raise"
    /\ agent_outcome["improvement"].kind = "raise"
    /\ review_results["debt"] = AgentResult("debt")
    /\ review_results["critical"] = AgentResult("critical")

\* C20: whatever requests came before, the handling of a trigger_review
\* whose id is not a stored codebase's answers 404 'Codebase not found.',
\* the handling of a get_results whose id is not a stored review's answers
\* 404 'Review not found.', and both leave codebases and reviews as they
\* were.
C20_UnknownIdChangesNothing ==
    [][/\ (request'.op = "trigger_review" /\ request'.id \notin DOMAIN codebases) =>
             /\ response'.status_code = 404
             /\ response'.content = [error |-> "Codebase not found."]
             /\ codebases' = codebases
             /\ reviews' = reviews
       /\ (request'.op = "get_results" /\ request'.id \notin DOMAIN reviews) =>
             /\ response'.status_code = 404
             /\ response'.content = [error |-> "Review not found."]
             /\ codebases' = codebases
             /\ reviews' = reviews]_vars

\* With a codebase and a review stored, a trigger_review naming the
\* review's id was answered 404.
C20_Witness ==
    /\ DOMAIN codebases # {}
    /\ DOMAIN reviews # {}
    /\ request.op = "trigger_review"
    /\ request.id \in DOMAIN reviews
    /\ response.status_code = 404
    /\ response.content = [error |-> "Codebase not found."]

\* run_plugins has stored the timeout entry for the plugin.
MarkedTimedOut(p) ==
    /\ HasKey(p)
    /\ results_by_plugin[name(p)] = TimeoutEntry(p)

\* C21: a plugin task that run_plugins has marked as timed out is not
\* running from then on: its future is cancelled or finished.
C21_MarkedIsCancelled ==
    \A p \in Registered : MarkedTimedOut(p) => future_state[p] # "running"

\* The oracle's output for the file is a JSON array.
IsArray(f) == llm_result[f].kind = "json" /\ llm_result[f].value.t = "array"

\* The oracle's output for the file is malformed: it is not JSON, or it is
\* a JSON array with a candidate that fails schema validation.
Malformed(f) ==
    \/ llm_result[f].kind = "text"
    \/ /\ IsArray(f)
       /\ \E x \in Range(llm_result[f].value.items) :
             x.t # "object" \/ ~Valid(x.fields)

\* The candidates of the file that pass schema validation and have a kind
\* the agent expects.
GoodCandidates(f) ==
    IF IsArray(f)
    THEN {x.fields : x \in {y \in Range(llm_result[f].value.items) :
                               /\ y.t = "object"
                               /\ Valid(y.fields)
                               /\ y.fields.type \in {"debt", "improvement"}}}
    ELSE {}

\* C22, as stated: in a returned report no issue comes from a file whose
\* oracle output is malformed: every issue of the report was accepted from
\* another file.
C22_MalformedFileGivesNothing ==
    run_pc = "returned" =>
        \A f \in Files :
            Malformed(f) =>
                Range(report.issues) \subseteq
                    UNION {Range(detect_issues_in_file(llm_result[g]).issues) :
                               g \in Files \ {f}}

\* C22, amended: in a returned report, a file whose output is not JSON
\* contributes no issue and a candidate that fails schema validation
\* contributes no issue, while the valid candidates of an expected kind of
\* the same file are kept: the issues of the report are candidates that are
\* valid and expected, and each such candidate of each file has an issue
\* of its file and line in the report.
C22_InvalidCandidateDroppedAlone ==
    run_pc = "returned" =>
        /\ \A i \in Range(report.issues) :
              \E f \in Files : \E c \in GoodCandidates(f) : i = IssueOutput(c)
        /\ \A f \in Files : \A c \in GoodCandidates(f) :
              \E k \in DOMAIN report.issues :
                  /\ report.issues[k].file = c.file
                  /\ report.issues[k].line = c.line

\* One file's output was not JSON, another's held an invalid candidate
\* before a valid one, and the report holds the valid one alone.
C22_Witness ==
    /\ run_pc = "returned"
    /\ \E f, g \in Files :
          /\ llm_result[f].kind = "text"
          /\ IsArray(g)
          /\ llm_result[g].value.items = <<Object(ShortDescription), Object(MagicNumber)>>
    /\ report.issues = <<IssueOutput(MagicNumber)>>

\* C23: a run whose review call raised, the reviewer turning the exception
\* into its "Review failed" text, does not raise: it goes on to build,
\* write and return the report of the deduplicated issues.
C23_ReviewFailureRecovered ==
    review.source = "failed" =>
        /\ run_pc \in {"report", "write", "returned"}
        /\ run_pc = "returned" => report.issues = all_issues

\* C24: a plugin step that ends without a mapping, because a plugin could
\* not be loaded or run_plugins raised, hands over to the review with the
\* issues unchanged and no error; after it the run raises only if the
\* report fails validation, and the report it returns holds the issues as
\* they were before the plugin step.
C24_PluginStepFailureRecovered ==
    /\ [][(run_pc = "plugins" /\ run_pc' # "blocked" /\ plugin_results' = NoResults) =>
              (run_pc' = "review" /\ all_issues' = all_issues /\ error' = "none")]_vars
    /\ []((review.source # "none" /\ plugin_results = NoResults) =>
              /\ run_pc = "raised" => (error = "validation" /\ ~ReportValid)
              /\ run_pc = "returned" =>
                    /\ report.issues = all_issues
                    /\ Range(report.issues) \subseteq Accepted)

\* The plugin step failed and the run returned and wrote a report with an
\* issue.
C24_Witness ==
    /\ run_pc = "returned"
    /\ plugin_results = NoResults
    /\ report.issues # <<>>
    /\ written

\* C25: at every moment the detection calls in progress are at most 8 and
\* at most the number of code files.
C25_BoundedFanOut ==
    /\ Cardinality(InProgress) <= 8
    /\ Cardinality(InProgress) <= fan_files

\* With more than 8 code files, 8 detection calls are in progress while
\* another file waits for a worker.
C25_Witness ==
    /\ fan_files > 8
    /\ Cardinality(InProgress) = 8
    /\ \E f \in 1..fan_files : detect_task[f] = "pending"

\* C26: no code file is handed to the detection oracle twice and no call
\* is made for anything but a code file, and when the fan-out is over every
\* code file has been handed to it once and its issues have been added.
C26_EachFileOnce ==
    /\ \A f \in 1..NManyFiles :
          /\ oracle_calls[f] <= 1
          /\ f > fan_files => oracle_calls[f] = 0
    /\ fan_pc = "done" =>
          \A f \in 1..fan_files : oracle_calls[f] = 1 /\ f \in folded

\* The fan-out over several files is over, each handed to the oracle once.
C26_Witness ==
    /\ fan_pc = "done"
    /\ fan_files >= 3
    /\ \A f \in 1..fan_files : oracle_calls[f] = 1

\* C28: run_plugins is called only when every detection task of the run
\* has finished and been collected, and the files it is called with are the
\* files that were given to detection.
C28_PluginsAfterDetection ==
    (run_pc = "plugins" \/ plugin_files.called) =>
        /\ \A f \in 1..NFiles : file_future[f] \in {"none", "finished"}
        /\ completed = <<>>
        /\ plugin_files.called =>
              plugin_files.files = {f \in 1..NFiles : file_future[f] = "finished"}

\* run_plugins was called with all the files of a run over several files,
\* and the run returned.
C28_Witness ==
    /\ run_pc = "returned"
    /\ code_files = NFiles
    /\ plugin_files = CalledWith(1..NFiles)
    /\ plugin_results # NoResults

\* C29: the list handed to the review step holds no two issues with one
\* deduplication key and is the issue list of the run from then on, and the
\* issues of a returned report are that list, in that order.
C29_ReviewOverFinalList ==
    review.source # "none" =>
        /\ reviewed_issues = all_issues
        /\ \A j, k \in DOMAIN reviewed_issues :
              Key(reviewed_issues[j]) = Key(reviewed_issues[k]) => j = k
        /\ run_pc = "returned" => report.issues = reviewed_issues

\* The reviewer was called on two issues that deduplication left out of
\* three, and the report holds the two.
C29_Witness ==
    /\ run_pc = "returned"
    /\ review.source = "oracle"
    /\ Len(reviewed_issues) = 2
    /\ Cardinality(Accepted) >= 3
    /\ report.issues = reviewed_issues

\* C30: every issue of a returned report has a kind the agent declares,
\* and a file with a valid candidate of another kind still has, for each of
\* its valid candidates of a declared kind, an issue of that file and line
\* in the report.
C30_UnexpectedKindDropped ==
    run_pc = "returned" =>
        /\ \A i \in Range(report.issues) : i.type \in get_expected_issue_types
        /\ \A f \in Files :
              (IsArray(f) /\ Object(SqlInjection) \in Range(llm_result[f].value.items)) =>
                  \A x \in Range(llm_result[f].value.items) :
                      (Valid(x.fields) /\ x.fields.type \in get_expected_issue_types) =>
                          \E k \in DOMAIN report.issues :
                              /\ report.issues[k].file = x.fields.file
                              /\ report.issues[k].line = x.fields.line

\* The oracle proposed a critical issue and then a debt issue for a file
\* of a debt and improvement agent, and the report holds the debt issue
\* alone.
C30_Witness ==
    /\ run_pc = "returned"
    /\ \E f \in Files :
          /\ IsArray(f)
          /\ llm_result[f].value.items = <<Object(SqlInjection), Object(MagicNumber)>>
    /\ report.issues = <<IssueOutput(MagicNumber)>>

\* The step takes a task of a pool worker forward: a task starts or ends.
WorkerStep ==
    \/ \E p \in 1..NPlugins :
          /\ future_state'[p] # future_state[p]
          /\ future_state'[p] \in {"running", "returned", "raised"}
    \/ \E f \in 1..NFiles :
          /\ file_future'[f] # file_future[f]
          /\ file_future'[f] \in {"running", "finished"}

\* The step stores an entry for the plugin in the result mapping.
Stores(p) ==
    /\ name(p) \in DOMAIN results_by_plugin'
    /\ name(p) \in DOMAIN results_by_plugin =>
          results_by_plugin'[name(p)] # results_by_plugin[name(p)]

\* The step adds to the issue list, from the position of the collecting
\* loop, the issues of a file whose task has finished.
FoldsFinishedFile ==
    /\ run_pc = "detect"
    /\ \E f \in Files :
          /\ file_future[f] = "finished"
          /\ all_issues' = all_issues \o detect_issues_in_file(llm_result[f]).issues

====
